---------------------------- MODULE Spec2Model ----------------------------
(***************************************************************************)
(* TechFix & Build STL analyzer (src/app.py): the pricing function         *)
(* calculer_prix, the .3mf reader load_mesh_3mf and the /analyze handler.  *)
(*                                                                         *)
(* Python floats are modelled as exact rationals, kept as mixed numbers    *)
(* i + n/d with 0 <= n < d in lowest terms, so that every intermediate     *)
(* value stays inside TLC's integers.                                      *)
(***************************************************************************)
EXTENDS Integers, Sequences, FiniteSets, TLC

VARIABLES
    px_in,      \* SpecPrix: the arguments (mesh, materiau, echelle) of calculer_prix
    px_out,     \* SpecPrix: <<>>, then <<the locals and the returned dict of calculer_prix>>
    mf_doc,         \* load_mesh_3mf: the archive at tmp_path
    mf_pc,          \* load_mesh_3mf: "open", "loop", "done" or "raised"
    mf_part,        \* index of model_file in model_files (from 1)
    mf_el,          \* index of mesh_el in the model part's mesh elements (from 1)
    all_vertices,
    all_faces,
    vertex_offset,
    mf_exc,         \* the exception raised, "" when none
    h_pc,           \* analyze: where the handler stands
    h_req,          \* <<>>, then <<the request being served>>
    h_materiau,       \* line 245
    h_echelle,        \* line 246: <<>> until parsed, then <<the float>>
    h_suffix,         \* line 251
    file_bytes,     \* line 255: whether f.read() has run
    r2_etat,        \* what upload_stl_r2 met: "" until called
    r2_key,         \* line 256: <<>> for None, <<filename>> for a key
    tmp_created,    \* line 258: whether a temporary file was created
    tmp_exists,     \* whether that file is still on disk
    decoded,        \* whether load_mesh has started decoding
    h_mesh,           \* <<>>, then <<the mesh load_mesh holds>>
    prix_args,      \* the arguments of each call of calculer_prix
    pending,        \* the response the try block returns, before `finally`
    response        \* <<>>, then <<the response sent>>

pxVars == <<px_in, px_out>>
mfVars == <<mf_doc, mf_pc, mf_part, mf_el, all_vertices, all_faces, vertex_offset, mf_exc>>
hVars  == <<h_pc, h_req, h_materiau, h_echelle, h_suffix, file_bytes, r2_etat, r2_key,
            tmp_created, tmp_exists, decoded, h_mesh, prix_args, pending, response>>
vars   == <<pxVars, mfVars, hVars>>

\* what the actions of one part of the program leave alone
mfOthers == <<pxVars, hVars>>
pxOthers == <<mfVars, hVars>>
hOthers  == <<pxVars, mfVars>>

PxIdle == px_in = <<>> /\ px_out = <<>>

\* the handler's locals before a request is served
HLocalsInit ==
    /\ h_materiau = ""
    /\ h_echelle = <<>>
    /\ h_suffix = ""
    /\ file_bytes = FALSE
    /\ r2_etat = ""
    /\ r2_key = <<>>
    /\ tmp_created = FALSE
    /\ tmp_exists = FALSE
    /\ decoded = FALSE
    /\ h_mesh = <<>>
    /\ prix_args = <<>>
    /\ pending = <<>>
    /\ response = <<>>

HIdle == h_pc = "idle" /\ h_req = <<>> /\ HLocalsInit

(***************************************************************************)
(* Rational arithmetic                                                     *)
(***************************************************************************)
RECURSIVE GCD(_, _)
GCD(a, b) == IF b = 0 THEN a ELSE GCD(b, a % b)

Abs(k) == IF k < 0 THEN -k ELSE k

QNorm(i, n, d) ==
    IF n = 0 THEN [i |-> i, n |-> 0, d |-> 1]
    ELSE LET g == GCD(n, d) IN [i |-> i, n |-> n \div g, d |-> d \div g]

QInt(k) == [i |-> k, n |-> 0, d |-> 1]

\* the rational p/q, q > 0 (a decimal literal such as 1.24 is QFrac(124, 100))
QFrac(p, q) == QNorm(p \div q, p % q, q)

QNum(a) == a.i * a.d + a.n

QNeg(a) == IF a.n = 0 THEN QInt(-a.i) ELSE [i |-> -a.i - 1, n |-> a.d - a.n, d |-> a.d]

QAdd(a, b) ==
    LET g == GCD(a.d, b.d)
        L == (a.d \div g) * b.d
        s == a.n * (L \div a.d) + b.n * (L \div b.d)
    IN  QNorm(a.i + b.i + (s \div L), s % L, L)

QSub(a, b) == QAdd(a, QNeg(b))

\* a * k for an integer k, by doubling
RECURSIVE QTimes(_, _)
QTimes(a, k) ==
    IF k = 0 THEN QInt(0)
    ELSE IF k < 0 THEN QNeg(QTimes(a, -k))
    ELSE IF k = 1 THEN a
    ELSE LET h == QTimes(a, k \div 2)
             dbl == QAdd(h, h)
         IN  IF k % 2 = 0 THEN dbl ELSE QAdd(dbl, a)

\* a / k for an integer k > 0
QDivInt(a, k) == QNorm(a.i \div k, (a.i % k) * a.d + a.n, k * a.d)

\* a * b and a / b (b > 0)
QMul(a, b) == QDivInt(QTimes(a, QNum(b)), b.d)
QDiv(a, b) == QDivInt(QTimes(a, b.d), QNum(b))

RECURSIVE QPow(_, _)
QPow(a, k) == IF k = 0 THEN QInt(1) ELSE QMul(QPow(a, k - 1), a)

QLt(a, b) == QSub(a, b).i < 0
QGt(a, b) == QLt(b, a)
QGe(a, b) == ~QLt(a, b)

\* Python's max(a, b): the first argument unless the second is greater
QMax(a, b) == IF QGt(b, a) THEN b ELSE a

RECURSIVE Pow10(_)
Pow10(k) == IF k = 0 THEN 1 ELSE 10 * Pow10(k - 1)

\* Python's round(a, nd), as a count of 10^-nd units (ties to even)
QRound(a, nd) ==
    LET x == QTimes(a, Pow10(nd))
    IN  IF 2 * x.n < x.d THEN x.i
        ELSE IF 2 * x.n > x.d THEN x.i + 1
        ELSE IF x.i % 2 = 0 THEN x.i ELSE x.i + 1

\* Python's int(a): truncation toward zero
QTrunc(a) == IF a.i < 0 /\ a.n # 0 THEN a.i + 1 ELSE a.i

\* Python's a % 1 for a float a: the fractional part, in [0, 1)
QMod1(a) == [i |-> 0, n |-> a.n, d |-> a.d]

(***************************************************************************)
(* CONFIG PRIX                                                             *)
(***************************************************************************)
Materiaux == {"PLA", "PETG", "TPU", "ASA"}

PRIX_KG == [m \in Materiaux |->
    CASE m = "PLA" -> QFrac(250, 10) [] m = "PETG" -> QFrac(280, 10)
      [] m = "TPU" -> QFrac(350, 10) [] m = "ASA" -> QFrac(280, 10)]

DENSITE == [m \in Materiaux |->
    CASE m = "PLA" -> QFrac(124, 100) [] m = "PETG" -> QFrac(127, 100)
      [] m = "TPU" -> QFrac(120, 100) [] m = "ASA" -> QFrac(107, 100)]

VITESSE_MM3_S == [m \in Materiaux |->
    CASE m = "PLA" -> QFrac(80, 10) [] m = "PETG" -> QFrac(65, 10)
      [] m = "TPU" -> QFrac(35, 10) [] m = "ASA" -> QFrac(60, 10)]

REMPLISSAGE        == QFrac(20, 100)
EPAISSEUR_COQUE    == QFrac(12, 100)
PRIX_HEURE_MACHINE == QFrac(150, 100)
COEFFICIENT_MARGE  == QFrac(140, 100)
PRIX_MIN           == QFrac(30, 10)

PLATEAU == [x |-> QFrac(2500, 10), y |-> QFrac(2500, 10), z |-> QFrac(2500, 10)]

\* d.get(key, default)
DictGet(dict, key, default) == IF key \in DOMAIN dict THEN dict[key] ELSE default


(***************************************************************************)
(* CALCUL PRIX                                                             *)
(*                                                                         *)
(* A mesh is [bounds, volume, area, ...]: bounds is <<lo, hi>> (two        *)
(* triples, mm) or <<>> for trimesh's None (a mesh without vertices),      *)
(* volume is trimesh's signed volume (mm3), area its surface (mm2).        *)
(***************************************************************************)
Axes == <<"X", "Y", "Z">>

\* line 176: (bounds[1] - bounds[0]) * echelle
DimsMm(mesh, echelle) ==
    [k \in 1..3 |-> QTimes(echelle, mesh.bounds[2][k] - mesh.bounds[1][k])]

\* lines 177-180: one warning per axis whose extent exceeds the bed
DepasseOuEgal(val, maxi) == QGe(val, maxi)
Depasse(val, maxi) == QGt(val, maxi)

RECURSIVE WarningsFrom(_, _)
WarningsFrom(dims_mm, k) ==
    IF k > 3 THEN <<>>
    ELSE LET maxi == <<PLATEAU.x, PLATEAU.y, PLATEAU.z>>[k]
             rest == WarningsFrom(dims_mm, k + 1)
         IN  IF Depasse(dims_mm[k], maxi)
             THEN <<[axe |-> Axes[k], val |-> QRound(dims_mm[k], 0),
                     maxi |-> QTrunc(maxi)]>> \o rest
             ELSE rest

\* line 202
SupplPlateauDesLeSeuil(ratio_plateau) ==
    IF QGe(ratio_plateau, QFrac(60, 100)) THEN QFrac(50, 100) ELSE QFrac(0, 10)
SupplPlateau(ratio_plateau) ==
    IF QGt(ratio_plateau, QFrac(60, 100)) THEN QFrac(50, 100) ELSE QFrac(0, 10)

\* line 210
PrixFinalSansPlancher(prix_brut) == QFrac(QRound(prix_brut, 2), 100)
PrixFinal(prix_brut) == QMax(QFrac(QRound(prix_brut, 2), 100), PRIX_MIN)

\* line 176 raises TypeError when mesh.bounds is None
PrixRaises(mesh) == Len(mesh.bounds) = 0

\* the locals of calculer_prix and the dict it returns (ret); rounded fields
\* are counts of their last decimal
calculer_prix(mesh, materiau, echelle) ==
    LET densite  == DictGet(DENSITE, materiau, QFrac(124, 100))
        vitesse  == DictGet(VITESSE_MM3_S, materiau, QFrac(80, 10))
        prix_kg  == DictGet(PRIX_KG, materiau, QFrac(250, 10))
        dims_mm  == DimsMm(mesh, echelle)
        warnings == WarningsFrom(dims_mm, 1)
        volume_mm3     == QMul(QInt(Abs(mesh.volume)), QPow(echelle, 3))
        volume_cm3     == QDivInt(volume_mm3, 1000)
        surface_cm2    == QDivInt(QMul(QInt(mesh.area), QPow(echelle, 2)), 100)
        volume_coque   == QMul(surface_cm2, EPAISSEUR_COQUE)
        volume_imprime == QAdd(QMul(volume_cm3, REMPLISSAGE), volume_coque)
        poids_g        == QMul(volume_imprime, densite)
        volume_mat_mm3 == QTimes(volume_imprime, 1000)
        temps_secondes == QDiv(volume_mat_mm3, vitesse)
        temps_heures   == QDivInt(temps_secondes, 3600)
        temps_label    == <<QTrunc(temps_heures), QTrunc(QTimes(QMod1(temps_heures), 60))>>
        surface_xy     == QMul(dims_mm[1], dims_mm[2])
        surface_max    == QMul(PLATEAU.x, PLATEAU.y)
        ratio_plateau  == QDiv(surface_xy, surface_max)
        suppl_plateau  == SupplPlateau(ratio_plateau)
        cout_matiere   == QMul(QDivInt(poids_g, 1000), prix_kg)
        cout_machine   == QMul(temps_heures, PRIX_HEURE_MACHINE)
        prix_brut      == QMul(QAdd(QAdd(cout_matiere, cout_machine), suppl_plateau),
                               COEFFICIENT_MARGE)
        prix_final     == PrixFinal(prix_brut)
    IN  [ dims_mm        |-> dims_mm,
          volume_cm3     |-> volume_cm3,
          surface_cm2    |-> surface_cm2,
          volume_imprime |-> volume_imprime,
          poids          |-> poids_g,
          temps_heures   |-> temps_heures,
          ratio_plateau  |-> ratio_plateau,
          suppl_plateau  |-> suppl_plateau,
          cout_matiere   |-> cout_matiere,
          cout_machine   |-> cout_machine,
          prix_brut      |-> prix_brut,
          ret |-> [ prix_final_eur      |-> prix_final,
                    prix_filament_eur   |-> QRound(cout_matiere, 2),
                    poids_g             |-> QRound(poids_g, 1),
                    volume_cm3          |-> QRound(volume_cm3, 2),
                    volume_imprime_cm3  |-> QRound(volume_imprime, 2),
                    temps_impression    |-> temps_label,
                    surface_plateau_pct |-> QRound(QTimes(ratio_plateau, 100), 1),
                    materiau            |-> materiau,
                    dimensions_mm       |-> [ largeur    |-> QRound(dims_mm[1], 1),
                                              profondeur |-> QRound(dims_mm[2], 1),
                                              hauteur    |-> QRound(dims_mm[3], 1) ],
                    warnings            |-> warnings ] ]


(***************************************************************************)
(* CHARGEMENT MESH: load_mesh_3mf                                          *)
(*                                                                         *)
(* The archive is [zip, parts]: zip is FALSE for a file that is no ZIP,    *)
(* parts holds, for each entry named *.model, its mesh elements in         *)
(* document order.  A mesh element is [hasVerts, nverts, hasTris, tris]:   *)
(* whether it has a <vertices> child and how many <vertex> it holds,       *)
(* whether it has a <triangles> child and the <triangle> index triples.    *)
(* The k-th vertex of element e of part p has the coordinates <<p, e, k>>, *)
(* so the vertex sets of distinct elements are disjoint.                   *)
(***************************************************************************)
NoAttr == -1        \* a triangle attribute that is absent: int(None) raises

VertsOf(p, e, el) == [k \in 1..el.nverts |-> <<p, e, k - 1>>]

\* line 112
Skipped(el) == ~el.hasVerts \/ ~el.hasTris

\* lines 122-127, for the triangles before the first one that lacks an attribute
RECURSIVE FacesOf(_, _)
FacesOf(tris, offset) ==
    IF tris = <<>> \/ NoAttr \in {tris[1][1], tris[1][2], tris[1][3]} THEN <<>>
    ELSE <<<<tris[1][1] + offset, tris[1][2] + offset, tris[1][3] + offset>>>>
             \o FacesOf(Tail(tris), offset)

TriRaises(tris) == \E j \in 1..Len(tris) : NoAttr \in {tris[j][1], tris[j][2], tris[j][3]}

\* line 129
OffsetApresTriangles(offset, el) == offset + Len(el.tris)
OffsetApres(offset, el) == offset + el.nverts

MfInitLocals ==
    /\ mf_pc = "open"
    /\ mf_part = 1
    /\ mf_el = 1
    /\ all_vertices = <<>>
    /\ all_faces = <<>>
    /\ vertex_offset = 0
    /\ mf_exc = ""

\* line 101: the file is not a ZIP archive
OpenBadZip ==
    /\ mf_pc = "open"
    /\ ~mf_doc.zip
    /\ mf_pc' = "raised"
    /\ mf_exc' = "BadZipFile"
    /\ UNCHANGED <<mfOthers, mf_doc, mf_part, mf_el, all_vertices, all_faces, vertex_offset>>

\* lines 103-105: no entry ends in .model
OpenNoModel ==
    /\ mf_pc = "open"
    /\ mf_doc.zip
    /\ mf_doc.parts = <<>>
    /\ mf_pc' = "raised"
    /\ mf_exc' = "ValueError: Aucun fichier .model"
    /\ UNCHANGED <<mfOthers, mf_doc, mf_part, mf_el, all_vertices, all_faces, vertex_offset>>

\* line 107: the loop over the model parts starts
OpenOk ==
    /\ mf_pc = "open"
    /\ mf_doc.zip
    /\ mf_doc.parts # <<>>
    /\ mf_pc' = "loop"
    /\ UNCHANGED <<mfOthers, mf_doc, mf_part, mf_el, all_vertices, all_faces, vertex_offset, mf_exc>>

MfHasElement ==
    /\ mf_pc = "loop"
    /\ mf_part <= Len(mf_doc.parts)
    /\ mf_el <= Len(mf_doc.parts[mf_part])

\* lines 110-113: a mesh element without vertices or without triangles
ElementSkipped ==
    /\ MfHasElement
    /\ Skipped(mf_doc.parts[mf_part][mf_el])
    /\ mf_el' = mf_el + 1
    /\ UNCHANGED <<mfOthers, mf_doc, mf_pc, mf_part, all_vertices, all_faces, vertex_offset, mf_exc>>

\* lines 115-129: one iteration of the loop over the mesh elements
ElementRead ==
    /\ MfHasElement
    /\ LET el == mf_doc.parts[mf_part][mf_el]
       IN  /\ ~Skipped(el)
           /\ ~TriRaises(el.tris)
           /\ all_vertices' = all_vertices \o VertsOf(mf_part, mf_el, el)
           /\ all_faces' = all_faces \o FacesOf(el.tris, vertex_offset)
           /\ vertex_offset' = OffsetApres(vertex_offset, el)
    /\ mf_el' = mf_el + 1
    /\ UNCHANGED <<mfOthers, mf_doc, mf_pc, mf_part, mf_exc>>

\* lines 115-127: int(t.get(...)) raises on a triangle that lacks an attribute,
\* after the vertices and the triangles before it were appended
ElementRaises ==
    /\ MfHasElement
    /\ LET el == mf_doc.parts[mf_part][mf_el]
       IN  /\ ~Skipped(el)
           /\ TriRaises(el.tris)
           /\ all_vertices' = all_vertices \o VertsOf(mf_part, mf_el, el)
           /\ all_faces' = all_faces \o FacesOf(el.tris, vertex_offset)
    /\ mf_pc' = "raised"
    /\ mf_exc' = "TypeError"
    /\ UNCHANGED <<mfOthers, mf_doc, mf_part, mf_el, vertex_offset>>

\* line 107: the mesh elements of this part are exhausted
PartNext ==
    /\ mf_pc = "loop"
    /\ mf_part <= Len(mf_doc.parts)
    /\ mf_el > Len(mf_doc.parts[mf_part])
    /\ mf_part' = mf_part + 1
    /\ mf_el' = 1
    /\ UNCHANGED <<mfOthers, mf_doc, mf_pc, all_vertices, all_faces, vertex_offset, mf_exc>>

\* lines 131-132
FinishNoGeometry ==
    /\ mf_pc = "loop"
    /\ mf_part > Len(mf_doc.parts)
    /\ all_vertices = <<>> \/ all_faces = <<>>
    /\ mf_pc' = "raised"
    /\ mf_exc' = "ValueError: Aucune geometrie valide"
    /\ UNCHANGED <<mfOthers, mf_doc, mf_part, mf_el, all_vertices, all_faces, vertex_offset>>

\* lines 134-138
FinishMesh ==
    /\ mf_pc = "loop"
    /\ mf_part > Len(mf_doc.parts)
    /\ all_vertices # <<>> /\ all_faces # <<>>
    /\ mf_pc' = "done"
    /\ UNCHANGED <<mfOthers, mf_doc, mf_part, mf_el, all_vertices, all_faces, vertex_offset, mf_exc>>

(***************************************************************************)
(* Spec3mf: load_mesh_3mf on every archive of bounded size                 *)
(***************************************************************************)
MaxElems == 2       \* mesh elements per model part

ElemKinds ==
    { [hasVerts |-> FALSE, nverts |-> 0, hasTris |-> TRUE,  tris |-> << <<0, 1, 2>> >>],
      [hasVerts |-> TRUE,  nverts |-> 2, hasTris |-> FALSE, tris |-> <<>>],
      [hasVerts |-> TRUE,  nverts |-> 3, hasTris |-> TRUE,  tris |-> << <<0, 1, 2>> >>],
      [hasVerts |-> TRUE,  nverts |-> 2, hasTris |-> TRUE,  tris |-> << <<1, 0, 1>>, <<0, 1, 2>> >>],
      [hasVerts |-> TRUE,  nverts |-> 1, hasTris |-> TRUE,  tris |-> << <<0, 0, 0>>, <<0, NoAttr, 0>> >>] }

SeqsUpTo(S, n) == UNION {[1..k -> S] : k \in 0..n}

Archives ==
    {[zip |-> FALSE, parts |-> <<>>]}
    \cup {[zip |-> TRUE, parts |-> ps] : ps \in SeqsUpTo(SeqsUpTo(ElemKinds, MaxElems), 2)}

Init3mf ==
    /\ mf_doc \in Archives
    /\ MfInitLocals
    /\ PxIdle
    /\ HIdle

Next3mf ==
    \/ OpenBadZip
    \/ OpenNoModel
    \/ OpenOk
    \/ ElementSkipped
    \/ ElementRead
    \/ ElementRaises
    \/ PartNext
    \/ FinishNoGeometry
    \/ FinishMesh

Spec3mf == Init3mf /\ [][Next3mf]_vars

MfIdle == mf_doc = [zip |-> FALSE, parts |-> <<>>] /\ MfInitLocals

(***************************************************************************)
(* Claims about load_mesh_3mf (checked under Spec3mf)                      *)
(***************************************************************************)
\* the mesh elements whose loop iteration is over, in processing order, each
\* with its part and element index
RECURSIVE ElementsDone(_, _)
ElementsDone(p, e) ==
    IF p > Len(mf_doc.parts) \/ p > mf_part \/ (p = mf_part /\ e >= mf_el) THEN <<>>
    ELSE IF e > Len(mf_doc.parts[p]) THEN ElementsDone(p + 1, 1)
    ELSE <<[p |-> p, e |-> e, el |-> mf_doc.parts[p][e]]>> \o ElementsDone(p, e + 1)

\* the stored triangles expected of a sequence of processed elements: each
\* triangle of a non-skipped element, its three local indices raised by the
\* number of vertices `before` accumulated from the earlier elements, together
\* with the element (src) it comes from and its local indices
RECURSIVE FacesAttendues(_, _)
FacesAttendues(done, before) ==
    IF done = <<>> THEN <<>>
    ELSE LET x == done[1]
         IN  IF ~x.el.hasVerts \/ ~x.el.hasTris
             THEN FacesAttendues(Tail(done), before)
             ELSE [j \in 1..Len(x.el.tris) |->
                      [face  |-> [c \in 1..3 |-> x.el.tris[j][c] + before],
                       local |-> x.el.tris[j],
                       src   |-> x]]
                  \o FacesAttendues(Tail(done), before + x.el.nverts)

\* C4: whenever a mesh element starts, the running offset equals the number of
\* vertices accumulated so far, and every triangle stored comes from a mesh
\* element with each index equal to its local index plus the number of vertices
\* accumulated from the elements processed before it; hence a triangle with
\* valid local indices refers to vertices of its own element only.
C4_OffsetEgalVerticesAccumules ==
    mf_pc \in {"loop", "done"} =>
        LET att == FacesAttendues(ElementsDone(1, 1), 0)
        IN  /\ vertex_offset = Len(all_vertices)
            /\ Len(all_faces) = Len(att)
            /\ \A j \in 1..Len(att) :
                 /\ all_faces[j] = att[j].face
                 /\ \A c \in 1..3 :
                      att[j].local[c] \in 0..(att[j].src.el.nverts - 1)
                        => all_vertices[all_faces[j][c] + 1]
                             = <<att[j].src.p, att[j].src.e, att[j].local[c]>>

\* a mesh built from two model parts, with a skipped element along the way: a
\* triangle of the second part is stored with a non-zero offset
C4_Witness ==
    /\ mf_pc = "done"
    /\ Len(mf_doc.parts) = 2
    /\ \E e \in 1..Len(mf_doc.parts[1]) : Skipped(mf_doc.parts[1][e])
    /\ \E e \in 1..Len(mf_doc.parts[1]) : ~Skipped(mf_doc.parts[1][e])
    /\ \E j \in 1..Len(all_faces) :
         /\ all_faces[j][1] >= 3
         /\ all_vertices[all_faces[j][1] + 1][1] = 2

(***************************************************************************)
(* SpecPrix: calculer_prix applied to every input of bounded sets          *)
(***************************************************************************)
MaxEchelle2 == 4      \* scale factors are the halves k/2, k <= MaxEchelle2
MaxVolK     == 1      \* volumes are the multiples of 500 cm3 up to MaxVolK
MaxAreaK    == 1      \* areas are the multiples of 400 cm2 up to MaxAreaK

Echelles == {QFrac(k, 2) : k \in {-2, 0} \cup 1..MaxEchelle2}

MateriauxPrix == Materiaux \cup {"XYZ"}

ExtentsX == {0, 150, 151, 251}
ExtentsY == {100, 250}
ExtentsZ == {20, 251}

VolumesPrix == {-8000} \cup {500000 * k : k \in 0..MaxVolK}
AreasPrix   == {2400} \cup {40000 * k : k \in 0..MaxAreaK}

MeshFrom(lo, ext, volume, area) ==
    [bounds |-> <<lo, <<lo[1] + ext[1], lo[2] + ext[2], lo[3] + ext[3]>> >>,
     volume |-> volume, area |-> area]

MeshVide == [bounds |-> <<>>, volume |-> 0, area |-> 0]

MeshesPrix ==
    {MeshFrom(<<-10, 5, 0>>, <<x, y, z>>, v, a) :
        x \in ExtentsX, y \in ExtentsY, z \in ExtentsZ, v \in VolumesPrix, a \in AreasPrix}
    \cup {MeshVide}

InitPrix ==
    /\ px_in \in [mesh : MeshesPrix, materiau : MateriauxPrix, echelle : Echelles]
    /\ px_out = <<>>
    /\ MfIdle
    /\ HIdle

\* calculer_prix returns its dict
Calculer ==
    /\ px_out = <<>>
    /\ ~PrixRaises(px_in.mesh)
    /\ px_out' = <<calculer_prix(px_in.mesh, px_in.materiau, px_in.echelle)>>
    /\ UNCHANGED <<pxOthers, px_in>>

\* calculer_prix raises on a mesh without bounds
CalculerRaises ==
    /\ px_out = <<>>
    /\ PrixRaises(px_in.mesh)
    /\ px_out' = <<[exception |-> "TypeError"]>>
    /\ UNCHANGED <<pxOthers, px_in>>

NextPrix == Calculer \/ CalculerRaises

SpecPrix == InitPrix /\ [][NextPrix]_vars

(***************************************************************************)
(* Claims about calculer_prix (checked under SpecPrix)                     *)
(***************************************************************************)
PrixCalcule == Len(px_out) = 1 /\ "ret" \in DOMAIN px_out[1]

\* the extent of the mesh on axis k, before scaling
ExtentOf(mesh, k) == mesh.bounds[2][k] - mesh.bounds[1][k]

\* C1: for every mesh, every material of the table and every scale > 0, the
\* final price returned by calculer_prix is at least the floor of 3.0 euros,
\* also for meshes of zero volume and area.
C1_PrixPlancher ==
    (PrixCalcule /\ px_in.materiau \in Materiaux /\ QGt(px_in.echelle, QInt(0)))
        => QGe(px_out[1].ret.prix_final_eur, QInt(3))

\* a degenerate mesh (no volume, no area) priced at a positive scale: the raw
\* price is below the floor and the floor is what is returned
C1_Witness ==
    /\ PrixCalcule
    /\ px_in.materiau \in Materiaux
    /\ QGt(px_in.echelle, QInt(0))
    /\ px_in.mesh.volume = 0 /\ px_in.mesh.area = 0
    /\ QLt(px_out[1].prix_brut, QInt(3))
    /\ px_out[1].ret.prix_final_eur = QInt(3)

\* bed occupancy > 0.60, stated on the inputs: (ex * e) * (ey * e) / (250 * 250)
\* with e = P / D
OccupationDepasse ==
    LET P == QNum(px_in.echelle)
        D == px_in.echelle.d
    IN  ExtentOf(px_in.mesh, 1) * ExtentOf(px_in.mesh, 2) * P * P * 100
            > 60 * 250 * 250 * D * D

OccupationAuSeuil ==
    LET P == QNum(px_in.echelle)
        D == px_in.echelle.d
    IN  ExtentOf(px_in.mesh, 1) * ExtentOf(px_in.mesh, 2) * P * P * 100
            = 60 * 250 * 250 * D * D

\* C5: the raw price includes the 0.50 bed surcharge if and only if the bed
\* occupancy ratio is strictly greater than 0.60; at exactly 0.60 it does not.
C5_SupplementSiDepasse ==
    PrixCalcule =>
        LET o == px_out[1]
            couts == QAdd(o.cout_matiere, o.cout_machine)
        IN  /\ OccupationDepasse =>
                o.prix_brut = QMul(QAdd(couts, QFrac(1, 2)), QFrac(7, 5))
            /\ ~OccupationDepasse => o.prix_brut = QMul(couts, QFrac(7, 5))
            /\ o.ratio_plateau = QFrac(3, 5) => o.prix_brut = QMul(couts, QFrac(7, 5))

\* a footprint of exactly 60 % of the bed, priced without the surcharge
C5_Witness ==
    /\ PrixCalcule
    /\ OccupationAuSeuil
    /\ px_out[1].ratio_plateau = QFrac(3, 5)
    /\ px_out[1].suppl_plateau = QInt(0)

\* C6: the warnings name axis A if and only if the scaled extent on A is
\* strictly greater than the bed limit (250 mm) on A, and a full breakdown with
\* a final price is returned whatever the number of warnings.
C6_WarningsParAxe ==
    (Len(px_out) = 1 /\ ~PrixRaises(px_in.mesh)) =>
        /\ PrixCalcule
        /\ "prix_final_eur" \in DOMAIN px_out[1].ret
        /\ \A k \in 1..3 :
             (\E j \in 1..Len(px_out[1].ret.warnings) :
                  px_out[1].ret.warnings[j].axe = Axes[k])
             <=> ExtentOf(px_in.mesh, k) * QNum(px_in.echelle) > 250 * px_in.echelle.d

\* one axis over the bed, another exactly at the limit: one warning, and a price
C6_Witness ==
    /\ PrixCalcule
    /\ ExtentOf(px_in.mesh, 1) * QNum(px_in.echelle) > 250 * px_in.echelle.d
    /\ ExtentOf(px_in.mesh, 2) * QNum(px_in.echelle) = 250 * px_in.echelle.d
    /\ Len(px_out[1].ret.warnings) = 2
    /\ QGe(px_out[1].ret.prix_final_eur, QInt(3))


(***************************************************************************)
(* ROUTES: /analyze                                                        *)
(*                                                                         *)
(* A request is [method, hasFile, materiau, echelle, filename, content]:   *)
(* the form fields are strings, NoField when the field is absent.  The     *)
(* content of the uploaded file is described by what the decoders make of  *)
(* it: archive is what load_mesh_3mf meets ("badzip", "nomodel", "nogeom"  *)
(* or "mesh"), loaded is what trimesh.load returns ("Trimesh", "Scene",    *)
(* "EmptyScene", "Other" or "raise"), mesh is the decoded mesh, repaired   *)
(* the mesh after fix_normals and fill_holes, repairRaises whether these   *)
(* raise.                                                                  *)
(***************************************************************************)
NoField == "<absent>"

\* request.form.get(name, default)
FormGet(v, default) == IF v = NoField THEN default ELSE v

\* str.upper() and str.lower(), on the strings of the model
Upper(str) ==
    CASE str = "petg" -> "PETG" [] str = "xyz" -> "XYZ" [] OTHER -> str

Lower(str) ==
    CASE str = ".STL" -> ".stl" [] OTHER -> str

\* float(): <<>> when it raises ValueError; the default 1.0 is a float already
ParseFloat(str) ==
    CASE str = NoField -> <<QFrac(10, 10)>>
      [] str = "2"     -> <<QInt(2)>>
      [] str = "0"     -> <<QInt(0)>>
      [] str = "-1.5"  -> <<QFrac(-15, 10)>>
      [] OTHER         -> <<>>

\* os.path.splitext(filename)[1]
Splitext1(filename) ==
    CASE filename = "piece.STL"  -> ".STL"
      [] filename = "piece.3mf"  -> ".3mf"
      [] filename = "piece.obj"  -> ".obj"
      [] filename = "piece.step" -> ".step"
      [] OTHER -> ""

\* line 251
SuffixOf(filename) == Lower(Splitext1(filename))

\* suffix.lstrip(".")
Lstrip(sfx) ==
    CASE sfx = ".stl" -> "stl" [] sfx = ".3mf" -> "3mf" [] sfx = ".obj" -> "obj"
      [] sfx = ".step" -> "step" [] OTHER -> sfx

\* line 248
MateriauToujoursConnu(m) == TRUE
MateriauConnu(m) == m \in DOMAIN DENSITE

\* line 252
SuffixToujoursSupporte(sfx) == TRUE
SuffixSupporte(sfx) == sfx \in {".stl", ".3mf", ".obj"}

\* jsonify({"error": ...}), status: the message is the concatenation of parts
ErrorResponse(status, parts) ==
    [status |-> status, json |-> [error |-> parts], raised |-> ""]

\* an exception that leaves analyze: Flask answers 500 Internal Server Error
Unhandled(exc) == [status |-> 500, json |-> <<>>, raised |-> exc]

\* line 272
ErreurAnalyse(msg) == ErrorResponse(500, <<"Erreur analyse : ", msg>>)

CubeFerme ==
    [bounds |-> << <<0, 0, 0>>, <<20, 20, 20>> >>, volume |-> 8000, area |-> 2400,
     watertight |-> TRUE]

PlaqueOuverte ==
    [bounds |-> << <<-100, -100, 0>>, <<100, 100, 300>> >>, volume |-> -500000,
     area |-> 200000, watertight |-> FALSE]

PlaqueReparee == [PlaqueOuverte EXCEPT !.volume = 500000, !.area = 240000,
                                       !.watertight = TRUE]

DeuxCorps ==
    [bounds |-> << <<0, 0, 0>>, <<150, 250, 20>> >>, volume |-> 500000, area |-> 80000,
     watertight |-> FALSE]

SansSommets == [bounds |-> <<>>, volume |-> 0, area |-> 0, watertight |-> FALSE]

Contenu(archive, loaded, m, repaired, repairRaises) ==
    [archive |-> archive, loaded |-> loaded, mesh |-> m, repaired |-> repaired,
     repairRaises |-> repairRaises]

Contents ==
    { Contenu("badzip",  "Trimesh",    CubeFerme,     CubeFerme,     FALSE),
      Contenu("badzip",  "Trimesh",    PlaqueOuverte, PlaqueReparee, FALSE),
      Contenu("badzip",  "Scene",      DeuxCorps,     DeuxCorps,     FALSE),
      Contenu("badzip",  "Trimesh",    DeuxCorps,     DeuxCorps,     TRUE),
      Contenu("badzip",  "Trimesh",    SansSommets,   SansSommets,   FALSE),
      Contenu("badzip",  "EmptyScene", SansSommets,   SansSommets,   FALSE),
      Contenu("badzip",  "Other",      SansSommets,   SansSommets,   FALSE),
      Contenu("nomodel", "raise",      SansSommets,   SansSommets,   FALSE),
      Contenu("nogeom",  "raise",      SansSommets,   SansSommets,   FALSE),
      Contenu("mesh",    "raise",      CubeFerme,     CubeFerme,     FALSE),
      Contenu("mesh",    "raise",      PlaqueOuverte, PlaqueReparee, FALSE) }

Requests ==
    [ method   : {"POST", "OPTIONS"},
      hasFile  : BOOLEAN,
      materiau : {NoField, "petg", "TPU", "xyz"},
      echelle  : {NoField, "2", "0", "-1.5", "abc"},
      filename : {"piece.STL", "piece.3mf", "piece.obj", "piece.step", "piece"},
      content  : Contents ]

Req == h_req[1]

\* lines 147-159: the mesh load_mesh decodes, or the exception it raises
LoadOutcome(sfx, content) ==
    IF sfx = ".3mf"
    THEN CASE content.archive = "badzip"  -> [ok |-> FALSE, exc |-> "File is not a zip file"]
           [] content.archive = "nomodel" ->
                [ok |-> FALSE, exc |-> "Aucun fichier .model trouve dans le .3mf"]
           [] content.archive = "nogeom"  ->
                [ok |-> FALSE, exc |-> "Aucune geometrie valide trouvee dans le .3mf"]
           [] OTHER -> [ok |-> TRUE, exc |-> ""]
    ELSE CASE content.loaded = "Trimesh" -> [ok |-> TRUE, exc |-> ""]
           [] content.loaded = "Scene"   -> [ok |-> TRUE, exc |-> ""]
           [] content.loaded = "EmptyScene" ->
                [ok |-> FALSE, exc |-> "Aucune geometrie valide trouvee dans le fichier."]
           [] content.loaded = "Other" -> [ok |-> FALSE, exc |-> "Format non reconnu"]
           [] OTHER -> [ok |-> FALSE, exc |-> "trimesh.load"]

\* line 274: whether the temporary file is still there after `finally`
TmpResteSiErreur(resp) == resp.status # 200
TmpApresFinally(resp) == FALSE

\* a request arrives
Receive(r) ==
    /\ h_pc = "idle"
    /\ h_req' = <<r>>
    /\ h_pc' = "entry"
    /\ UNCHANGED <<hOthers, h_materiau, h_echelle, h_suffix, file_bytes, r2_etat, r2_key,
                   tmp_created, tmp_exists, decoded, h_mesh, prix_args, pending, response>>

\* the response has left: nothing of the request is kept, except what it left
\* on disk
Return ==
    /\ h_pc = "done"
    /\ h_pc' = "idle"
    /\ h_req' = <<>>
    /\ h_materiau' = ""
    /\ h_echelle' = <<>>
    /\ h_suffix' = ""
    /\ file_bytes' = FALSE
    /\ r2_etat' = ""
    /\ r2_key' = <<>>
    /\ tmp_created' = FALSE
    /\ decoded' = FALSE
    /\ h_mesh' = <<>>
    /\ prix_args' = <<>>
    /\ pending' = <<>>
    /\ response' = <<>>
    /\ UNCHANGED <<hOthers, tmp_exists>>

\* lines 238-239
Options ==
    /\ h_pc = "entry"
    /\ Req.method = "OPTIONS"
    /\ response' = <<[status |-> 200, json |-> <<>>, raised |-> ""]>>
    /\ h_pc' = "done"
    /\ UNCHANGED <<hOthers, h_req, h_materiau, h_echelle, h_suffix, file_bytes, r2_etat, r2_key, tmp_created, tmp_exists, decoded, h_mesh, prix_args, pending>>

\* lines 241-242
NoFile ==
    /\ h_pc = "entry"
    /\ Req.method = "POST"
    /\ ~Req.hasFile
    /\ response' = <<ErrorResponse(400, <<"Aucun fichier recu">>)>>
    /\ h_pc' = "done"
    /\ UNCHANGED <<hOthers, h_req, h_materiau, h_echelle, h_suffix, file_bytes, r2_etat, r2_key, tmp_created, tmp_exists, decoded, h_mesh, prix_args, pending>>

\* lines 244-246: the form fields are read and converted
ParseForm ==
    /\ h_pc = "entry"
    /\ Req.method = "POST"
    /\ Req.hasFile
    /\ ParseFloat(Req.echelle) # <<>>
    /\ h_materiau' = Upper(FormGet(Req.materiau, "PLA"))
    /\ h_echelle' = ParseFloat(Req.echelle)
    /\ h_pc' = "validate"
    /\ UNCHANGED <<hOthers, h_req, h_suffix, file_bytes, r2_etat, r2_key, tmp_created, tmp_exists, decoded, h_mesh, prix_args, pending, response>>

\* line 246: float() raises ValueError, which nothing catches
ParseRaises ==
    /\ h_pc = "entry"
    /\ Req.method = "POST"
    /\ Req.hasFile
    /\ ParseFloat(Req.echelle) = <<>>
    /\ h_materiau' = Upper(FormGet(Req.materiau, "PLA"))
    /\ response' = <<Unhandled("ValueError")>>
    /\ h_pc' = "done"
    /\ UNCHANGED <<hOthers, h_req, h_echelle, h_suffix, file_bytes, r2_etat, r2_key, tmp_created, tmp_exists, decoded, h_mesh, prix_args, pending>>

\* lines 248-249
RejectMateriau ==
    /\ h_pc = "validate"
    /\ ~MateriauConnu(h_materiau)
    /\ response' = <<ErrorResponse(400, <<"Materiau inconnu : ", h_materiau>>)>>
    /\ h_pc' = "done"
    /\ UNCHANGED <<hOthers, h_req, h_materiau, h_echelle, h_suffix, file_bytes, r2_etat, r2_key, tmp_created, tmp_exists, decoded, h_mesh, prix_args, pending>>

\* lines 251-253
RejectSuffix ==
    /\ h_pc = "validate"
    /\ MateriauConnu(h_materiau)
    /\ ~SuffixSupporte(SuffixOf(Req.filename))
    /\ h_suffix' = SuffixOf(Req.filename)
    /\ response' = <<ErrorResponse(400, <<"Format non supporte. Utilisez .stl, .3mf ou .obj">>)>>
    /\ h_pc' = "done"
    /\ UNCHANGED <<hOthers, h_req, h_materiau, h_echelle, file_bytes, r2_etat, r2_key, tmp_created, tmp_exists, decoded, h_mesh, prix_args, pending>>

\* lines 251-255: the request is valid and the file is read
ReadFile ==
    /\ h_pc = "validate"
    /\ MateriauConnu(h_materiau)
    /\ SuffixSupporte(SuffixOf(Req.filename))
    /\ h_suffix' = SuffixOf(Req.filename)
    /\ file_bytes' = TRUE
    /\ h_pc' = "upload"
    /\ UNCHANGED <<hOthers, h_req, h_materiau, h_echelle, r2_etat, r2_key, tmp_created, tmp_exists, decoded, h_mesh, prix_args, pending, response>>

(***************************************************************************)
(* line 256: upload_stl_r2(file_bytes, f.filename), lines 49-83.  What the  *)
(* storage side does is not decided by the request.                        *)
(***************************************************************************)
\* lines 50-51, 67-68: R2 is not configured
UploadUnconfigured ==
    /\ h_pc = "upload"
    /\ r2_etat' = "unconfigured"
    /\ r2_key' = <<>>
    /\ h_pc' = "tmp"
    /\ UNCHANGED <<hOthers, h_req, h_materiau, h_echelle, h_suffix, file_bytes, tmp_created, tmp_exists, decoded, h_mesh, prix_args, pending, response>>

\* lines 61-63, 67-68: boto3 is not installed
UploadNoBoto3 ==
    /\ h_pc = "upload"
    /\ r2_etat' = "no_boto3"
    /\ r2_key' = <<>>
    /\ h_pc' = "tmp"
    /\ UNCHANGED <<hOthers, h_req, h_materiau, h_echelle, h_suffix, file_bytes, tmp_created, tmp_exists, decoded, h_mesh, prix_args, pending, response>>

\* lines 54-60: boto3.client raises something else than ImportError; neither
\* get_r2_client, nor upload_stl_r2 (line 66 is outside its try), nor analyze
\* (line 256 is outside its try) catches it
UploadClientError ==
    /\ h_pc = "upload"
    /\ r2_etat' = "client_error"
    /\ response' = <<Unhandled("boto3.client")>>
    /\ h_pc' = "done"
    /\ UNCHANGED <<hOthers, h_req, h_materiau, h_echelle, h_suffix, file_bytes, r2_key, tmp_created, tmp_exists, decoded, h_mesh, prix_args, pending>>

\* lines 73-83: put_object raises
UploadPutFailed ==
    /\ h_pc = "upload"
    /\ r2_etat' = "put_failed"
    /\ r2_key' = <<>>
    /\ h_pc' = "tmp"
    /\ UNCHANGED <<hOthers, h_req, h_materiau, h_echelle, h_suffix, file_bytes, tmp_created, tmp_exists, decoded, h_mesh, prix_args, pending, response>>

\* lines 70-80: the object is stored
UploadStored ==
    /\ h_pc = "upload"
    /\ r2_etat' = "stored"
    /\ r2_key' = <<Req.filename>>
    /\ h_pc' = "tmp"
    /\ UNCHANGED <<hOthers, h_req, h_materiau, h_echelle, h_suffix, file_bytes, tmp_created, tmp_exists, decoded, h_mesh, prix_args, pending, response>>

\* lines 258-260
CreateTmp ==
    /\ h_pc = "tmp"
    /\ tmp_created' = TRUE
    /\ tmp_exists' = TRUE
    /\ h_pc' = "load"
    /\ UNCHANGED <<hOthers, h_req, h_materiau, h_echelle, h_suffix, file_bytes, r2_etat, r2_key, decoded, h_mesh, prix_args, pending, response>>

\* lines 263, 147-159: the file is decoded
LoadOk ==
    /\ h_pc = "load"
    /\ LoadOutcome(h_suffix, Req.content).ok
    /\ decoded' = TRUE
    /\ h_mesh' = <<Req.content.mesh>>
    /\ h_pc' = "repair"
    /\ UNCHANGED <<hOthers, h_req, h_materiau, h_echelle, h_suffix, file_bytes, r2_etat, r2_key, tmp_created, tmp_exists, prix_args, pending, response>>

\* lines 263, 147-159, 271-272: decoding raises
LoadRaises ==
    /\ h_pc = "load"
    /\ ~LoadOutcome(h_suffix, Req.content).ok
    /\ decoded' = TRUE
    /\ pending' = <<ErreurAnalyse(LoadOutcome(h_suffix, Req.content).exc)>>
    /\ h_pc' = "finally"
    /\ UNCHANGED <<hOthers, h_req, h_materiau, h_echelle, h_suffix, file_bytes, r2_etat, r2_key, tmp_created, tmp_exists, h_mesh, prix_args, response>>

\* line 161: the mesh is watertight
RepairSkip ==
    /\ h_pc = "repair"
    /\ h_mesh[1].watertight
    /\ h_pc' = "price"
    /\ UNCHANGED <<hOthers, h_req, h_materiau, h_echelle, h_suffix, file_bytes, r2_etat, r2_key, tmp_created, tmp_exists, decoded, h_mesh, prix_args, pending, response>>

\* lines 161-163
RepairDone ==
    /\ h_pc = "repair"
    /\ ~h_mesh[1].watertight
    /\ ~Req.content.repairRaises
    /\ h_mesh' = <<Req.content.repaired>>
    /\ h_pc' = "price"
    /\ UNCHANGED <<hOthers, h_req, h_materiau, h_echelle, h_suffix, file_bytes, r2_etat, r2_key, tmp_created, tmp_exists, decoded, prix_args, pending, response>>

\* lines 161-163, 271-272: the repair raises
RepairRaises ==
    /\ h_pc = "repair"
    /\ ~h_mesh[1].watertight
    /\ Req.content.repairRaises
    /\ pending' = <<ErreurAnalyse("repair")>>
    /\ h_pc' = "finally"
    /\ UNCHANGED <<hOthers, h_req, h_materiau, h_echelle, h_suffix, file_bytes, r2_etat, r2_key, tmp_created, tmp_exists, decoded, h_mesh, prix_args, response>>

\* lines 264-269: the dict of calculer_prix, completed
Result(m, mat, ech, key, sfx) ==
    [watertight |-> m.watertight, r2_key |-> key, format |-> Lstrip(sfx)]
        @@ calculer_prix(m, mat, ech).ret

\* lines 264-269
PriceOk ==
    /\ h_pc = "price"
    /\ ~PrixRaises(h_mesh[1])
    /\ prix_args' = Append(prix_args, [mesh |-> h_mesh[1], materiau |-> h_materiau, echelle |-> h_echelle[1]])
    /\ pending' = <<[status |-> 200, json |-> Result(h_mesh[1], h_materiau, h_echelle[1], r2_key, h_suffix), raised |-> ""]>>
    /\ h_pc' = "finally"
    /\ UNCHANGED <<hOthers, h_req, h_materiau, h_echelle, h_suffix, file_bytes, r2_etat, r2_key, tmp_created, tmp_exists, decoded, h_mesh, response>>

\* lines 264, 271-272: calculer_prix raises
PriceRaises ==
    /\ h_pc = "price"
    /\ PrixRaises(h_mesh[1])
    /\ prix_args' = Append(prix_args, [mesh |-> h_mesh[1], materiau |-> h_materiau, echelle |-> h_echelle[1]])
    /\ pending' = <<ErreurAnalyse("TypeError")>>
    /\ h_pc' = "finally"
    /\ UNCHANGED <<hOthers, h_req, h_materiau, h_echelle, h_suffix, file_bytes, r2_etat, r2_key, tmp_created, tmp_exists, decoded, h_mesh, response>>

\* lines 273-274: os.unlink(tmp_path), then the response leaves
Finally ==
    /\ h_pc = "finally"
    /\ tmp_exists' = TmpApresFinally(pending[1])
    /\ response' = pending
    /\ h_pc' = "done"
    /\ UNCHANGED <<hOthers, h_req, h_materiau, h_echelle, h_suffix, file_bytes, r2_etat, r2_key, tmp_created, decoded, h_mesh, prix_args, pending>>

Init ==
    /\ HIdle
    /\ PxIdle
    /\ MfIdle

Next ==
    \/ \E r \in Requests : Receive(r)
    \/ Options
    \/ NoFile
    \/ ParseForm
    \/ ParseRaises
    \/ RejectMateriau
    \/ RejectSuffix
    \/ ReadFile
    \/ UploadUnconfigured
    \/ UploadNoBoto3
    \/ UploadClientError
    \/ UploadPutFailed
    \/ UploadStored
    \/ CreateTmp
    \/ LoadOk
    \/ LoadRaises
    \/ RepairSkip
    \/ RepairDone
    \/ RepairRaises
    \/ PriceOk
    \/ PriceRaises
    \/ Finally
    \/ Return

Spec == Init /\ [][Next]_vars

(***************************************************************************)
(* Claims about /analyze (checked under Spec)                              *)
(***************************************************************************)
Done == h_pc = "done"
Resp == response[1]

IsErrorJson(resp) == "error" \in DOMAIN resp.json

\* the request being served is a POST that carries a file
PostAvecFichier == h_req # <<>> /\ Req.method = "POST" /\ Req.hasFile

\* the form's material key, upper-cased, is not a key of the material table
CleInconnue == Upper(FormGet(Req.materiau, "PLA")) \notin Materiaux

\* the scale field is present and float() rejects it
EchelleIllisible == ParseFloat(Req.echelle) = <<>>

\* the filename's extension, lower-cased, is none of .stl, .3mf, .obj
ExtensionRefusee == Lower(Splitext1(Req.filename)) \notin {".stl", ".3mf", ".obj"}

UnknownMaterialOutcome ==
    /\ Resp.status = 400
    /\ IsErrorJson(Resp)
    /\ Resp.json.error = <<"Materiau inconnu : ", Upper(FormGet(Req.materiau, "PLA"))>>

UnsupportedFormatOutcome ==
    /\ Resp.status = 400
    /\ IsErrorJson(Resp)
    /\ Resp.json.error = <<"Format non supporte. Utilisez .stl, .3mf ou .obj">>

ScaleErrorOutcome == Resp.status = 500 /\ Resp.raised = "ValueError"

\* no byte read, no upload attempted, no temporary file, no decoding, no pricing
NoLaterStep ==
    /\ ~file_bytes
    /\ r2_etat = ""
    /\ r2_key = <<>>
    /\ ~tmp_created
    /\ ~tmp_exists
    /\ ~decoded
    /\ h_mesh = <<>>
    /\ prix_args = <<>>

C3_Original ==
    (PostAvecFichier /\ ExtensionRefusee) =>
        /\ NoLaterStep
        /\ Done => UnsupportedFormatOutcome

\* C3, amended: for every POST request with a file whose lower-cased extension
\* is not .stl, .3mf or .obj, the file is never read (no byte read, no upload,
\* no temporary file, no decoding) and the request ends with an error: the one
\* of the first check that fails, in the handler's order -- the scale
\* conversion, the material key, then the extension.  So the outcome is
\* UnsupportedFormat exactly when the scale converts and the key is known.
C3_ExtensionRefuseeJamaisLue ==
    (PostAvecFichier /\ ExtensionRefusee) =>
        /\ NoLaterStep
        /\ Done =>
             /\ EchelleIllisible => ScaleErrorOutcome
             /\ (~EchelleIllisible /\ CleInconnue) => UnknownMaterialOutcome
             /\ (~EchelleIllisible /\ ~CleInconnue) => UnsupportedFormatOutcome

\* piece.step with a known material and a good scale: UnsupportedFormat, unread
C3_Witness ==
    /\ Done
    /\ PostAvecFichier
    /\ Req.filename = "piece.step"
    /\ ~EchelleIllisible
    /\ ~CleInconnue
    /\ UnsupportedFormatOutcome
    /\ NoLaterStep

\* what decoding, repair and pricing make of a valid request, whatever the
\* storage side does: the response, with no storage reference
ResultatAttendu(req) ==
    LET sfx == Lower(Splitext1(req.filename))
        lo  == LoadOutcome(sfx, req.content)
        m0  == req.content.mesh
        m   == IF m0.watertight THEN m0 ELSE req.content.repaired
    IN  IF ~lo.ok THEN ErreurAnalyse(lo.exc)
        ELSE IF ~m0.watertight /\ req.content.repairRaises THEN ErreurAnalyse("repair")
        ELSE IF PrixRaises(m) THEN ErreurAnalyse("TypeError")
        ELSE [status |-> 200,
              json   |-> Result(m, Upper(FormGet(req.materiau, "PLA")),
                                ParseFloat(req.echelle)[1], <<>>, sfx),
              raised |-> ""]

SansCle(resp) ==
    IF "r2_key" \in DOMAIN resp.json THEN [resp EXCEPT !.json.r2_key = <<>>] ELSE resp

\* C7 as stated: whatever the storage collaborator does (success, failure at
\* client creation, failure at put_object, not configured), a request that
\* passed validation reaches decoding and pricing, and its outcome is the same
\* but for r2_key.
C7_StockageNonFatal ==
    (Done /\ file_bytes) =>
        /\ decoded
        /\ Resp.raised = ""
        /\ SansCle(Resp) = ResultatAttendu(Req)

\* the same, for the storage outcomes that upload_stl_r2 catches
C7_SaufErreurClient ==
    (Done /\ file_bytes /\ r2_etat # "client_error") =>
        /\ decoded
        /\ Resp.raised = ""
        /\ SansCle(Resp) = ResultatAttendu(Req)

\* C8 as stated: a request whose scale is zero or negative never reaches the
\* pricing step, so every breakdown returned was computed with a scale > 0 and
\* has non-negative volume, dimensions and weight.
C8_EchellePositive ==
    /\ \A k \in 1..Len(prix_args) : QGt(prix_args[k].echelle, QInt(0))
    /\ (Done /\ Resp.status = 200 /\ PostAvecFichier) =>
         /\ QGt(h_echelle[1], QInt(0))
         /\ Resp.json.volume_cm3 >= 0
         /\ Resp.json.poids_g >= 0
         /\ Resp.json.dimensions_mm.largeur >= 0
         /\ Resp.json.dimensions_mm.profondeur >= 0
         /\ Resp.json.dimensions_mm.hauteur >= 0

ErrorKinds ==
    {"UnsupportedFormat", "UnknownMaterial", "InvalidArchive", "NoModelPart", "NoGeometry",
     "ComputationError"}

\* C9 as stated: every error outcome carries its kind and the offending value
\* as structured information: a kind of the taxonomy, and the rejected
\* extension or material key as a value of its own.
C9_ErreursStructurees ==
    (Done /\ PostAvecFichier /\ Resp.status # 200) =>
        /\ "kind" \in DOMAIN Resp.json
        /\ Resp.json.kind \in ErrorKinds
        /\ Resp.json.kind = "UnsupportedFormat" => Resp.json.value = Splitext1(Req.filename)
        /\ Resp.json.kind = "UnknownMaterial" => Resp.json.value = h_materiau

=============================================================================
